---- MODULE Spec2Model ----
(***************************************************************************)
(* Doc2Quiz backend (d2q-backend): the knowledge-tree merge engine of      *)
(* services/knowledge_service.py and the question / quiz stores of         *)
(* services/question_bank_service.py, as state machines over the JSON      *)
(* collections they persist.  One action per HTTP handler; a handler that  *)
(* raises leaves its collection as it was.                                 *)
(*                                                                         *)
(* Identifiers.  Python keeps node ids as strings (uuid4) and outline      *)
(* local ids as integers.  Both are integers here so that they can be      *)
(* compared; node ids start at FirstNodeId, above every local id an        *)
(* outline can carry.  uuid4() is a counter: every call yields an id no    *)
(* earlier call yielded.                                                   *)
(* Payload fields no operation reads (name/text, createdAt) are left out   *)
(* of the node records.                                                    *)
(***************************************************************************)
EXTENDS Integers, Sequences, FiniteSets, TLC

\* ---------------------------------------------------------------- bounds
\* base (folder / document) nodes of the initial tree
NumBase == 2
\* largest local id an outline item carries
MaxLocalId == 2
\* longest outline the extraction oracle returns
MaxOutline == 2
\* uuid4() calls the merge engine may make in one behaviour
MaxFresh == 4
\* merge requests (POST /point/extract) in one behaviour
MaxMerges == 2

\* ------------------------------------------------------------ value space
\* Python None in an id-valued field (parentId of a root, node_id of a folder)
NoneId == 0
\* parentId of an outline item at the top of its outline
RootLocal == -1
\* item.get("file_name") of a node that has no such key
NoFile == "None"

LocalIds == 1..MaxLocalId
FirstNodeId == MaxLocalId + 2
BaseIds == FirstNodeId..(FirstNodeId + NumBase - 1)
\* an id that no node of any reachable tree carries
AbsentId == FirstNodeId + NumBase + MaxFresh + 1
\* the n-th id uuid4() hands out (n counted from 0)
uuid4(n) == FirstNodeId + NumBase + n
FileNames == {"a.pdf", "b.pdf"}

\* outline items as the extraction oracle returns them: {id, parentId}; a
\* parentId is dangling when no item of the outline carries it as its id
DirItems == [id : LocalIds, parentId : {RootLocal} \cup LocalIds]
RECURSIVE SeqsUpTo(_, _)
SeqsUpTo(S, n) ==
    IF n = 0 THEN {<<>>}
    ELSE LET shorter == SeqsUpTo(S, n - 1)
         IN  shorter \cup {Append(s, x) : s \in {t \in shorter : Len(t) = n - 1}, x \in S}
\* local ids are arbitrary labels: outlines are taken up to renaming, the first
\* item carrying local id 1
Outlines == {d \in SeqsUpTo(DirItems, MaxOutline) : d # <<>> => d[1].id = 1}

VARIABLES
    tree,       \* knowledge_tree.json "items": the flattened list of nodes
    nextId,     \* number of uuid4() ids handed out to stored nodes so far
    merges,     \* number of merge requests so far
    lastOp,     \* the last handler that ran, its result, the exception that
                \* escaped it and the return a merge left by; for a merge that
                \* saved the tree its arguments, and whether the handler before
                \* it was a merge that saved with the same ones; for a merge
                \* that raised its anchor and document; for the other handlers
                \* their arguments
    questions,      \* question.json "questions": the stored question records
    cohortOf,       \* history: for question id n, cohortOf[n] is the number of the
                    \* save call that stored it
    quizQuestions,  \* quiz_question.json "quiz_questions"
    quizs,          \* quiz_bank.json "quizs"
    now,            \* the last reading of the wall clock (datetime.now())
    requests,       \* number of requests to the question and quiz endpoints so far
    recent,         \* history: the last three handlers that ran on the quiz stores
    banks,          \* question_bank.json "banks"
    handlers        \* the handlers running side by side on question.json: for each
                    \* its position, its request and the list it loaded

\* no handler is running side by side with another
NoHandlers == <<>>

treeVars == <<tree, nextId, merges>>
quizVars == <<questions, cohortOf, quizQuestions, quizs, now, requests, recent, banks,
              handlers>>
vars == <<tree, nextId, merges, lastOp, questions, cohortOf, quizQuestions, quizs, now,
          requests, recent, banks, handlers>>


\* ------------------------------------------------------- sequence helpers
Range(s) == {s[i] : i \in 1..Len(s)}
Ids(items) == {items[i].id : i \in 1..Len(items)}

\* ------------------------------------------------- knowledge_service.py
BaseNode(i, p) ==
    [id |-> FirstNodeId + i - 1,
     type |-> IF i = 1 THEN "folder" ELSE "document",
     parentId |-> p, file_name |-> NoFile, node_id |-> NoneId]

\* trees a client has stored through /tree/save before any merge: n folder /
\* document nodes in a chain below a root, or the same chain closed into a cycle
\* (node 1 below node n); no parentId is orphaned
Chain(n, p1) ==
    [i \in 1..n |-> BaseNode(i, IF i = 1 THEN p1 ELSE FirstNodeId + i - 2)]
InitTrees ==
    {Chain(n, NoneId) : n \in 0..NumBase} \cup
    {Chain(n, FirstNodeId + n - 1) : n \in 1..NumBase}

find_parent_document_any(knowledge_items, knowledge_item_id) == TRUE

find_parent_document(knowledge_items, knowledge_item_id) ==
    \E i \in 1..Len(knowledge_items) : knowledge_items[i].id = knowledge_item_id

remove_existing_knowledge_points_keep_all(knowledge_items, knowledge_item_id, file_name) ==
    knowledge_items

remove_existing_knowledge_points(knowledge_items, knowledge_item_id, file_name) ==
    SelectSeq(knowledge_items,
              LAMBDA item : ~(/\ item.parentId = knowledge_item_id
                              /\ item.type = "knowledge"
                              /\ item.file_name = file_name))

\* first pass of convert_directory_to_knowledge_items: the i-th item draws the
\* i-th fresh id and id_mapping[original_id] is overwritten by later items
\* carrying the same local id
id_mapping_keys(directory_items) == Ids(directory_items)
LastIndexOf(directory_items, original_id) ==
    CHOOSE i \in 1..Len(directory_items) :
        /\ directory_items[i].id = original_id
        /\ \A j \in (i + 1)..Len(directory_items) : directory_items[j].id # original_id
id_mapping(directory_items, first, original_id) ==
    uuid4(first + LastIndexOf(directory_items, original_id) - 1)

\* id_mapping[dir_item['parentId']] raises KeyError
convert_raises(directory_items) ==
    \E i \in 1..Len(directory_items) :
        /\ directory_items[i].parentId # RootLocal
        /\ directory_items[i].parentId \notin id_mapping_keys(directory_items)

parent_id_local(directory_items, first, dir_item, knowledge_item_id) ==
    IF dir_item.parentId # RootLocal THEN dir_item.parentId ELSE knowledge_item_id

parent_id(directory_items, first, dir_item, knowledge_item_id) ==
    IF dir_item.parentId # RootLocal
    THEN id_mapping(directory_items, first, dir_item.parentId)
    ELSE knowledge_item_id

\* second pass; defined when ~convert_raises(directory_items)
convert_directory_to_knowledge_items(directory_items, knowledge_item_id, file_name, first) ==
    [i \in 1..Len(directory_items) |->
        [id |-> id_mapping(directory_items, first, directory_items[i].id),
         type |-> "knowledge",
         parentId |-> parent_id(directory_items, first, directory_items[i], knowledge_item_id),
         file_name |-> file_name,
         node_id |-> directory_items[i].id]]

\* merge_knowledge_points_to_tree, saving the purged list before the conversion
\* (not what the code does)
merge_knowledge_points_saving_purge(knowledge_items, directory_items, knowledge_item_id, file_name, first) ==
    IF ~find_parent_document(knowledge_items, knowledge_item_id)
    THEN [tree |-> knowledge_items, result |-> 0, raised |-> "", saved |-> FALSE,
          path |-> "no parent"]
    ELSE IF convert_raises(directory_items)
    THEN [tree |-> remove_existing_knowledge_points(
                       knowledge_items, knowledge_item_id, file_name),
          result |-> 0, raised |-> "KeyError", saved |-> FALSE, path |-> "raise"]
    ELSE LET purged == remove_existing_knowledge_points(
                           knowledge_items, knowledge_item_id, file_name)
             new_items == convert_directory_to_knowledge_items(
                           directory_items, knowledge_item_id, file_name, first)
         IN  [tree |-> purged \o new_items, result |-> Len(new_items), raised |-> "",
              saved |-> TRUE, path |-> "merged"]

\* merge_knowledge_points_to_tree: the tree it leaves stored, the count it
\* returns, the exception that escapes it ("" for none; the conversion raises
\* before save_knowledge_tree), whether it saved and the return it left by
merge_knowledge_points_to_tree(knowledge_items, directory_items, knowledge_item_id, file_name, first) ==
    IF ~find_parent_document(knowledge_items, knowledge_item_id)
    THEN [tree |-> knowledge_items, result |-> 0, raised |-> "", saved |-> FALSE,
          path |-> "no parent"]
    ELSE IF convert_raises(directory_items)
    THEN [tree |-> knowledge_items, result |-> 0, raised |-> "KeyError", saved |-> FALSE,
          path |-> "raise"]
    ELSE LET purged == remove_existing_knowledge_points(
                           knowledge_items, knowledge_item_id, file_name)
             new_items == convert_directory_to_knowledge_items(
                           directory_items, knowledge_item_id, file_name, first)
         IN  [tree |-> purged \o new_items, result |-> Len(new_items), raised |-> "",
              saved |-> TRUE, path |-> "merged"]

\* extract_and_save_knowledge_point, from the parsed oracle reply on
extract_and_save_knowledge_point(knowledge_items, directory_items, knowledge_item_id, file_name, first) ==
    IF knowledge_item_id = NoneId \/ directory_items = <<>>
    THEN [tree |-> knowledge_items, result |-> 0, raised |-> "", saved |-> FALSE,
          path |-> "no merge"]
    ELSE merge_knowledge_points_to_tree(
             knowledge_items, directory_items, knowledge_item_id, file_name, first)

\* POST /point/extract
ExtractAndSave(directory_items, knowledge_item_id, file_name) ==
    LET r == extract_and_save_knowledge_point(
                 tree, directory_items, knowledge_item_id, file_name, nextId)
    IN  /\ merges < MaxMerges
        /\ r.saved => nextId + Len(directory_items) <= MaxFresh
        /\ tree' = r.tree
        /\ nextId' = IF r.saved THEN nextId + Len(directory_items) ELSE nextId
        /\ merges' = merges + 1
        /\ lastOp' = IF r.saved
                      THEN [op |-> "merge", result |-> r.result, raised |-> r.raised,
                            items |-> directory_items, kid |-> knowledge_item_id,
                            file |-> file_name, path |-> r.path,
                            again |-> /\ lastOp.op = "merge"
                                      /\ lastOp.items = directory_items
                                      /\ lastOp.kid = knowledge_item_id
                                      /\ lastOp.file = file_name]
                      ELSE IF r.path = "raise"
                      THEN [op |-> "merge", result |-> r.result, raised |-> r.raised,
                            items |-> <<>>, kid |-> knowledge_item_id, file |-> file_name,
                            path |-> r.path, again |-> FALSE]
                      ELSE [op |-> "merge", result |-> r.result, raised |-> r.raised,
                            items |-> <<>>, kid |-> NoneId, file |-> NoFile,
                            path |-> r.path, again |-> FALSE]
        /\ UNCHANGED quizVars

\* Python's recursion limit stands above the depth any acyclic descent reaches
RecursionLimit == NumBase + MaxFresh + 1

Children(parent_id_, all_items) ==
    {all_items[i].id : i \in {j \in 1..Len(all_items) : all_items[j].parentId = parent_id_}}

\* find_all_descendants reaches the recursion limit: RecursionError
RECURSIVE find_all_descendants_overflows(_, _, _)
find_all_descendants_overflows(parent_id_, all_items, depth) ==
    IF depth > RecursionLimit THEN TRUE
    ELSE \E c \in Children(parent_id_, all_items) :
             find_all_descendants_overflows(c, all_items, depth + 1)

RECURSIVE find_all_descendants_from(_, _, _)
find_all_descendants_from(parent_id_, all_items, depth) ==
    IF depth > RecursionLimit THEN {}
    ELSE LET cs == Children(parent_id_, all_items)
         IN  cs \cup UNION {find_all_descendants_from(c, all_items, depth + 1) : c \in cs}

find_all_descendants(parent_id_, all_items) ==
    find_all_descendants_from(parent_id_, all_items, 1)

\* delete_knowledge_points: the tree it leaves stored, the count it returns and
\* the exception that escapes it
delete_knowledge_points(knowledge_items, knowledge_item_id) ==
    IF find_all_descendants_overflows(knowledge_item_id, knowledge_items, 1)
    THEN [tree |-> knowledge_items, result |-> 0, raised |-> "RecursionError"]
    ELSE LET items_to_delete == find_all_descendants(knowledge_item_id, knowledge_items)
         IN  [tree |-> SelectSeq(knowledge_items, LAMBDA item : item.id \notin items_to_delete),
              result |-> Cardinality(items_to_delete), raised |-> ""]

\* DELETE /point/delete
DeleteKnowledgePoints(knowledge_item_id) ==
    LET r == delete_knowledge_points(tree, knowledge_item_id)
    IN  /\ tree' = r.tree
        /\ UNCHANGED <<nextId, merges>>
        /\ lastOp' = [op |-> "delete", result |-> r.result, raised |-> r.raised,
                      items |-> <<>>, kid |-> NoneId, file |-> NoFile, path |-> "delete",
                      again |-> FALSE]
        /\ UNCHANGED quizVars

NoOp == [op |-> "init", result |-> 0, raised |-> "", items |-> <<>>, kid |-> NoneId,
         file |-> NoFile, path |-> "init", again |-> FALSE]

QuizBlank ==
    /\ questions = <<>>
    /\ cohortOf = <<>>
    /\ quizQuestions = <<>>
    /\ quizs = <<>>
    /\ now = 0
    /\ requests = 0
    /\ recent = <<>>
    /\ banks = <<>>
    /\ handlers = NoHandlers

TreeInit ==
    /\ tree \in InitTrees
    /\ nextId = 0
    /\ merges = 0
    /\ lastOp = NoOp
    /\ QuizBlank

AnchorArgs == Ids(tree) \cup {NoneId, AbsentId}

TreeNext ==
    \/ \E directory_items \in Outlines, knowledge_item_id \in AnchorArgs, file_name \in FileNames :
           ExtractAndSave(directory_items, knowledge_item_id, file_name)
    \/ \E knowledge_item_id \in Ids(tree) \cup {AbsentId} :
           DeleteKnowledgePoints(knowledge_item_id)

TreeSpec == TreeInit /\ [][TreeNext]_vars

\* ------------------------------------------- question_bank_service.py
\* more bounds
\* questions a store holds when composing starts
MaxQuestions == 3
\* largest target count of a compose request
MaxTarget == 3
\* entries of a compose request's target_counts
MaxKeys == 2
\* requests to the quiz endpoints in one behaviour
MaxRequests == 4
\* quizzes created in one behaviour
MaxQuizzes == 2
\* questions a quiz-specification store holds
MaxQuizStore == 2

\* Python None in a string-valued field (bank_id, type)
None == "None"
\* str.lower() on the type strings in use
lower(str) ==
    CASE str = "SINGLE_CHOICE" -> "single_choice"
      [] str = "Essay" -> "essay"
      [] OTHER -> str

\* content.type as stored: QuestionItem.type is Optional, and save_questions
\* stores the None the request carries
StoredTypes == <<"single_choice", "Essay", None>>
KnowledgeIds == <<"k1", "k2">>
\* keys of target_counts
TypeKeys == {"single_choice", "SINGLE_CHOICE", "essay"}
\* uuid4() strings of the quizzes, in the order they are drawn
QuizUuids == <<"quiz-1", "quiz-2", "quiz-3", "quiz-4">>
QuizNames == {"", "Midterm"}

NumClasses == Len(StoredTypes) * Len(KnowledgeIds)
\* the question a client posts: type and knowledge_id (the other content fields
\* are copied along and never read)
QuestionData(c) ==
    [type |-> StoredTypes[((c - 1) \div Len(KnowledgeIds)) + 1],
     knowledge_id |-> KnowledgeIds[((c - 1) % Len(KnowledgeIds)) + 1]]

\* the record save_questions builds for one question
question_obj(question_id, created_time, bank_id, question_data) ==
    [question_id |-> question_id,
     created_time |-> created_time,
     knowledge_id |-> question_data.knowledge_id,
     bank_id |-> bank_id,
     question_content |-> [type |-> question_data.type,
                           knowledge_id |-> question_data.knowledge_id]]

\* stores of up to n questions of the given classes, saved one per call, up to
\* the order of the records
StoresOver(classes, n) ==
    {[i \in 1..Len(cs) |-> question_obj(i, i, None, QuestionData(cs[i]))] :
        cs \in {d \in SeqsUpTo(classes, n) :
                   \A i \in 1..(Len(d) - 1) : d[i] <= d[i + 1]}}

StoresUpTo(n) == StoresOver(1..NumClasses, n)

\* load_questions: question_content expanded to the top level
load_questions(questions_raw) ==
    [i \in 1..Len(questions_raw) |->
        [question_id |-> questions_raw[i].question_id,
         created_time |-> questions_raw[i].created_time,
         knowledge_id |-> questions_raw[i].knowledge_id,
         bank_id |-> questions_raw[i].bank_id,
         type |-> questions_raw[i].question_content.type]]

\* q.get("type", "").lower() on a stored None: AttributeError
type_filter_raises(questions_list) ==
    \E i \in 1..Len(questions_list) : questions_list[i].type = None

type_questions(questions_list, question_type, knowledge_ids) ==
    SelectSeq(questions_list,
              LAMBDA q : /\ lower(q.type) = lower(question_type)
                         /\ q.knowledge_id \in Range(knowledge_ids))

min_per_knowledge(target_count, knowledge_ids) == target_count \div Len(knowledge_ids)

used_question_ids(selected) == {selected[i].question_id : i \in 1..Len(selected)}

Min(a, b) == IF a <= b THEN a ELSE b

\* random.sample(population, count): every ordered choice of count distinct elements
random_sample(population, count) ==
    {[i \in 1..count |-> population[f[i]]] :
        f \in {g \in [1..count -> 1..Len(population)] :
                  \A i, j \in 1..count : i # j => g[i] # g[j]}}

knowledge_questions_any(type_qs, knowledge_id, selected) ==
    SelectSeq(type_qs, LAMBDA q : q.question_id \notin used_question_ids(selected))

knowledge_questions(type_qs, knowledge_id, selected) ==
    SelectSeq(type_qs,
              LAMBDA q : /\ q.knowledge_id = knowledge_id
                         /\ q.question_id \notin used_question_ids(selected))

\* first step: per knowledge id, in the order of knowledge_ids; the set of the
\* selections the draws can leave
RECURSIVE first_round(_, _, _, _, _)
first_round(type_qs, knowledge_ids, min_per, k, selected) ==
    IF k > Len(knowledge_ids) THEN {selected}
    ELSE LET kq == knowledge_questions(type_qs, knowledge_ids[k], selected)
             count == Min(min_per, Len(kq))
         IN  UNION {first_round(type_qs, knowledge_ids, min_per, k + 1, selected \o drawn) :
                        drawn \in random_sample(kq, count)}

\* second step: fill up from whatever is left
second_round(type_qs, knowledge_ids, target_count, selected) ==
    LET remaining_needed == target_count - Len(selected)
        remaining_questions ==
            SelectSeq(type_qs,
                      LAMBDA q : /\ q.question_id \notin used_question_ids(selected)
                                 /\ q.knowledge_id \in Range(knowledge_ids))
        count == Min(remaining_needed, Len(remaining_questions))
    IN  IF remaining_needed > 0
        THEN {selected \o drawn : drawn \in random_sample(remaining_questions, count)}
        ELSE {selected}

\* one type's pass: the selections it can end with
select_for_type(questions_list, knowledge_ids, question_type, target_count) ==
    IF target_count <= 0 THEN {<<>>}
    ELSE LET type_qs == type_questions(questions_list, question_type, knowledge_ids)
         IN  IF type_qs = <<>> THEN {<<>>}
             ELSE UNION {second_round(type_qs, knowledge_ids, target_count, selected) :
                             selected \in first_round(
                                 type_qs, knowledge_ids,
                                 min_per_knowledge(target_count, knowledge_ids), 1, <<>>)}

raw_question_first(questions_raw, question_id) == questions_raw[1]

\* question_id_to_raw.get(question_id): the last raw record carrying the id
raw_question(questions_raw, question_id) ==
    questions_raw[CHOOSE i \in 1..Len(questions_raw) :
                      /\ questions_raw[i].question_id = question_id
                      /\ \A j \in (i + 1)..Len(questions_raw) :
                             questions_raw[j].question_id # question_id]

quiz_item(questions_raw, question) ==
    [quiz_id |-> "",
     quiz_name |-> "",
     question_id |-> question.question_id,
     question_content |-> raw_question(questions_raw, question.question_id).question_content]

\* the passes over target_counts[k..]: for every entry its key, its target and
\* the quiz items of its selection (none for a skipped entry)
RECURSIVE compose_passes(_, _, _, _)
compose_passes(questions_raw, knowledge_ids, target_counts, k) ==
    IF k > Len(target_counts) THEN {<<>>}
    ELSE {<<[type |-> target_counts[k].type,
             count |-> target_counts[k].count,
             items |-> [i \in 1..Len(selected) |-> quiz_item(questions_raw, selected[i])]]>>
          \o later :
             selected \in select_for_type(load_questions(questions_raw), knowledge_ids,
                                          target_counts[k].type, target_counts[k].count),
             later \in compose_passes(questions_raw, knowledge_ids, target_counts, k + 1)}

RECURSIVE Flatten(_)
Flatten(passes) ==
    IF passes = <<>> THEN <<>> ELSE Head(passes).items \o Flatten(Tail(passes))

\* compose_quiz without the knowledge_ids check, an empty list passing as a
\* request with nothing to draw (not what the code does)
compose_quiz_unguarded(questions_raw, knowledge_ids, target_counts) ==
    IF load_questions(questions_raw) = <<>>
    THEN {[raised |-> "400 no questions", passes |-> <<>>, quiz_items |-> <<>>]}
    ELSE IF knowledge_ids = <<>>
    THEN {[raised |-> "", passes |-> <<>>, quiz_items |-> <<>>]}
    ELSE IF /\ \E k \in 1..Len(target_counts) : target_counts[k].count > 0
            /\ type_filter_raises(load_questions(questions_raw))
    THEN {[raised |-> "AttributeError", passes |-> <<>>, quiz_items |-> <<>>]}
    ELSE {[raised |-> "", passes |-> passes, quiz_items |-> Flatten(passes)] :
             passes \in compose_passes(questions_raw, knowledge_ids, target_counts, 1)}
\* compose_quiz up to the save: the outcomes the draws allow, each the exception
\* that escapes (if any), the passes and the quiz items to save
compose_quiz(questions_raw, knowledge_ids, target_counts) ==
    IF load_questions(questions_raw) = <<>>
    THEN {[raised |-> "400 no questions", passes |-> <<>>, quiz_items |-> <<>>]}
    ELSE IF knowledge_ids = <<>>
    THEN {[raised |-> "400 no knowledge ids", passes |-> <<>>, quiz_items |-> <<>>]}
    ELSE IF /\ \E k \in 1..Len(target_counts) : target_counts[k].count > 0
            /\ type_filter_raises(load_questions(questions_raw))
    THEN {[raised |-> "AttributeError", passes |-> <<>>, quiz_items |-> <<>>]}
    ELSE {[raised |-> "", passes |-> passes, quiz_items |-> Flatten(passes)] :
             passes \in compose_passes(questions_raw, knowledge_ids, target_counts, 1)}

save_quiz_questions_replace(existing_questions, quiz_items) == quiz_items
save_quiz_questions_to_file(existing_questions, quiz_items) ==
    existing_questions \o quiz_items

\* the last three entries of the history
Recent(entry) ==
    LET all == Append(recent, entry)
    IN  IF Len(all) > 3 THEN Tail(all) ELSE all

\* POST /quiz/compose (bank_id and quiz_name are not read by compose_quiz)
ComposeQuiz(knowledge_ids, target_counts) ==
    \E r \in compose_quiz(questions, knowledge_ids, target_counts) :
        /\ quizQuestions' = IF r.raised = ""
                            THEN save_quiz_questions_to_file(quizQuestions, r.quiz_items)
                            ELSE quizQuestions
        /\ requests' = requests + 1
        /\ lastOp' = [op |-> "compose", raised |-> r.raised, result |-> Len(r.quiz_items),
                      knowledge_ids |-> knowledge_ids, target_counts |-> target_counts,
                      passes |-> r.passes]
        /\ recent' = Recent([op |-> "compose", raised |-> r.raised, n |-> Len(r.quiz_items)])
        /\ UNCHANGED <<questions, cohortOf, quizs, now>>
        /\ UNCHANGED <<treeVars, banks, handlers>>

\* list.sort(key=created_time, reverse=True): descending and stable
RECURSIVE sort_desc(_)
sort_desc(records) ==
    IF records = <<>> THEN <<>>
    ELSE LET sorted == sort_desc(SubSeq(records, 1, Len(records) - 1))
             x == records[Len(records)]
             ahead == {i \in 1..Len(sorted) : sorted[i].created_time >= x.created_time}
             n == Cardinality(ahead)
         IN  SubSeq(sorted, 1, n) \o <<x>> \o SubSeq(sorted, n + 1, Len(sorted))

get_quiz_banks(stored) == sort_desc(stored)

\* create_quiz: the quiz list it saves
create_quiz(stored, quiz_data) == Append(get_quiz_banks(stored), quiz_data)

update_quiz_questions_first_only(quiz_questions, quiz_id, quiz_name) ==
    [i \in 1..Len(quiz_questions) |->
        IF /\ quiz_questions[i].quiz_id = ""
           /\ \A j \in 1..(i - 1) : quiz_questions[j].quiz_id # ""
        THEN [quiz_questions[i] EXCEPT !.quiz_id = quiz_id, !.quiz_name = quiz_name]
        ELSE quiz_questions[i]]

update_quiz_questions_all(quiz_questions, quiz_id, quiz_name) ==
    [i \in 1..Len(quiz_questions) |->
        [quiz_questions[i] EXCEPT !.quiz_id = quiz_id, !.quiz_name = quiz_name]]

\* update_quiz_questions_quiz_info: the records whose quiz_id is falsy get both
update_quiz_questions_quiz_info(quiz_questions, quiz_id, quiz_name) ==
    [i \in 1..Len(quiz_questions) |->
        IF quiz_questions[i].quiz_id = ""
        THEN [quiz_questions[i] EXCEPT !.quiz_id = quiz_id, !.quiz_name = quiz_name]
        ELSE quiz_questions[i]]

\* POST /quiz/create: create_quiz, then update_quiz_questions_quiz_info
CreateQuiz(quiz_name) ==
    \E t \in {now, now + 1} :
        LET quiz_data == [quiz_id |-> QuizUuids[Len(quizs) + 1], quiz_name |-> quiz_name,
                          created_time |-> t]
        IN  /\ Len(quizs) < MaxQuizzes
            /\ now' = t
            /\ quizs' = create_quiz(quizs, quiz_data)
            /\ quizQuestions' = update_quiz_questions_quiz_info(
                                    quizQuestions, quiz_data.quiz_id, quiz_data.quiz_name)
            /\ lastOp' = [op |-> "create_quiz", raised |-> "", result |-> 0,
                          quiz_id |-> quiz_data.quiz_id, quiz_name |-> quiz_name]
            /\ recent' = Recent([op |-> "create_quiz", raised |-> "", n |-> 0])
            /\ requests' = requests + 1
            /\ UNCHANGED <<questions, cohortOf>>
            /\ UNCHANGED <<treeVars, banks, handlers>>

\* POST /quiz/update-quiz-info
UpdateQuizInfo(quiz_id, quiz_name) ==
    /\ quizQuestions' = update_quiz_questions_quiz_info(quizQuestions, quiz_id, quiz_name)
    /\ lastOp' = [op |-> "update_quiz_info", raised |-> "", result |-> 0,
                  quiz_id |-> quiz_id, quiz_name |-> quiz_name]
    /\ recent' = Recent([op |-> "update_quiz_info", raised |-> "", n |-> 0])
    /\ requests' = requests + 1
    /\ UNCHANGED <<questions, cohortOf, quizs, now>>
    /\ UNCHANGED <<treeVars, banks, handlers>>

\* knowledge_ids of a compose request: any list, repeats included
KnowledgeIdLists == SeqsUpTo(Range(KnowledgeIds), Len(KnowledgeIds))
\* target_counts of a compose request: a dict, its keys distinct, in insertion order
TargetCounts(max_keys, max_count) ==
    {tc \in SeqsUpTo([type : TypeKeys, count : 0..max_count], max_keys) :
        \A i, j \in 1..Len(tc) : i # j => tc[i].type # tc[j].type}

TreeBlank ==
    /\ tree = <<>>
    /\ nextId = 0
    /\ merges = 0

\* composing, as a function of the store and the request: one request per behaviour
ComposeInit ==
    /\ TreeBlank
    /\ lastOp = NoOp
    /\ questions \in StoresUpTo(MaxQuestions)
    /\ cohortOf = [i \in 1..Len(questions) |-> i]
    /\ quizQuestions = <<>>
    /\ quizs = <<>>
    /\ now = Len(questions)
    /\ requests = 0
    /\ recent = <<>>
    /\ banks = <<>>
    /\ handlers = NoHandlers

ComposeNext ==
    /\ requests = 0
    /\ \E knowledge_ids \in KnowledgeIdLists, target_counts \in TargetCounts(MaxKeys, MaxTarget) :
           ComposeQuiz(knowledge_ids, target_counts)

ComposeSpec == ComposeInit /\ [][ComposeNext]_vars

\* composing, creating quizzes and assigning, over the smaller stores: questions
\* of (single_choice, k1), (Essay, k2) and (None, k1)
QuizStores == StoresOver({1, 4, 5}, MaxQuizStore)
QuizKnowledgeIdLists == {<<>>, <<"k1">>, <<"k1", "k2">>}
QuizTargetCounts ==
    {<<[type |-> type, count |-> count]>> : type \in {"single_choice", "essay"}, count \in 1..MaxQuizStore}

QuizInit ==
    /\ TreeBlank
    /\ lastOp = NoOp
    /\ questions \in QuizStores
    /\ cohortOf = [i \in 1..Len(questions) |-> i]
    /\ quizQuestions = <<>>
    /\ quizs = <<>>
    /\ now = Len(questions)
    /\ requests = 0
    /\ recent = <<>>
    /\ banks = <<>>
    /\ handlers = NoHandlers

QuizIdArgs == {"", "quiz-x"} \cup {quizs[i].quiz_id : i \in 1..Len(quizs)}

QuizNext ==
    /\ requests < MaxRequests
    /\ \/ \E knowledge_ids \in QuizKnowledgeIdLists, target_counts \in QuizTargetCounts :
              ComposeQuiz(knowledge_ids, target_counts)
       \/ \E quiz_name \in QuizNames : CreateQuiz(quiz_name)
       \/ \E quiz_id \in QuizIdArgs, quiz_name \in QuizNames : UpdateQuizInfo(quiz_id, quiz_name)

QuizSpec == QuizInit /\ [][QuizNext]_vars

\* --------------------------------- saving, assigning and deleting questions
\* questions of one save request
MaxBatch == 2
\* save requests in one behaviour
MaxSaves == 2

BankIds == {"b1", "b2"}
\* str(uuid4()) of the i-th question of the save request numbered call
question_uuid(call, i) == (call - 1) * MaxBatch + i
AbsentQuestion == 0

save_questions_truncating(questions_raw, questions_list, bank_id, created_time, call) ==
    [i \in 1..Len(questions_list) |->
        question_obj(question_uuid(call, i), created_time, bank_id, questions_list[i])]

\* save_questions: the store it writes (every question of the request carries
\* the one created_time read before the loop)
save_questions(questions_raw, questions_list, bank_id, created_time, call) ==
    questions_raw \o
    [i \in 1..Len(questions_list) |->
        question_obj(question_uuid(call, i), created_time, bank_id, questions_list[i])]

\* save_questions: the dict it returns
save_questions_returns(questions_list, created_time, call) ==
    [question_id |-> IF questions_list = <<>> THEN NoneId ELSE question_uuid(call, 1),
     created_time |-> created_time,
     question_ids |-> [i \in 1..Len(questions_list) |-> question_uuid(call, i)]]

found_question(questions_raw, question_id) ==
    \E i \in 1..Len(questions_raw) : questions_raw[i].question_id = question_id

created_time_of(questions_raw, question_id) ==
    questions_raw[CHOOSE i \in 1..Len(questions_raw) :
                      /\ questions_raw[i].question_id = question_id
                      /\ \A j \in 1..(i - 1) : questions_raw[j].question_id # question_id
                 ].created_time

\* update_question_bank touching the found record only (not what the code does)
update_question_bank_single(questions_raw, question_id, bank_id) ==
    [i \in 1..Len(questions_raw) |->
        IF /\ questions_raw[i].question_id = question_id
           /\ questions_raw[i].bank_id = None
        THEN [questions_raw[i] EXCEPT !.bank_id = bank_id]
        ELSE questions_raw[i]]
update_question_bank_overwrite(questions_raw, question_id, bank_id) ==
    [i \in 1..Len(questions_raw) |->
        IF questions_raw[i].created_time = created_time_of(questions_raw, question_id)
        THEN [questions_raw[i] EXCEPT !.bank_id = bank_id]
        ELSE questions_raw[i]]
\* update_question_bank: the store it writes, once the question is found
update_question_bank(questions_raw, question_id, bank_id) ==
    [i \in 1..Len(questions_raw) |->
        IF /\ questions_raw[i].created_time = created_time_of(questions_raw, question_id)
           /\ questions_raw[i].bank_id = None
        THEN [questions_raw[i] EXCEPT !.bank_id = bank_id]
        ELSE questions_raw[i]]

update_question_bank_raised_never(questions_raw, question_id) == ""

\* update_question_bank: the error it raises ("" for none)
update_question_bank_raised(questions_raw, question_id) ==
    IF found_question(questions_raw, question_id) THEN "" ELSE "404"

delete_question_pop(questions_raw, question_id) ==
    IF found_question(questions_raw, question_id)
    THEN SubSeq(questions_raw, 1, Len(questions_raw) - 1)
    ELSE questions_raw

\* delete_question: the store it writes when it does not raise
delete_question(questions_raw, question_id) ==
    SelectSeq(questions_raw, LAMBDA q : q.question_id # question_id)

\* delete_question: the error it raises, by comparing the lengths
delete_question_raised(questions_raw, question_id) ==
    IF Len(delete_question(questions_raw, question_id)) = Len(questions_raw)
    THEN "404" ELSE ""

\* the save requests that stored a question so far
calls_so_far == Cardinality({cohortOf[id] : id \in DOMAIN cohortOf})

\* POST /question/save
SaveQuestions(questions_list, bank_id) ==
    \E t \in {now, now + 1} :
        LET call == calls_so_far + 1
            saved == save_questions(questions, questions_list, bank_id, t, call)
        IN  /\ call <= MaxSaves
            /\ requests < MaxRequests
            /\ now' = t
            /\ questions' = saved
            /\ cohortOf' = [id \in DOMAIN cohortOf \cup
                                   {question_uuid(call, i) : i \in 1..Len(questions_list)} |->
                               IF id \in DOMAIN cohortOf THEN cohortOf[id] ELSE call]
            /\ requests' = requests + 1
            /\ lastOp' = [op |-> "save", raised |-> "", result |-> Len(questions_list),
                          created_time |-> t, bank_id |-> bank_id,
                          returned |-> save_questions_returns(questions_list, t, call)]
            /\ UNCHANGED <<quizQuestions, quizs, recent>>
            /\ UNCHANGED <<treeVars, banks, handlers>>

\* POST /question/update-bank
UpdateQuestionBank(question_id, bank_id) ==
    /\ requests < MaxRequests
    /\ questions' = IF found_question(questions, question_id)
                    THEN update_question_bank(questions, question_id, bank_id)
                    ELSE questions
    /\ requests' = requests + 1
    /\ lastOp' = [op |-> "update_bank",
                  raised |-> update_question_bank_raised(questions, question_id),
                  result |-> 0, question_id |-> question_id, bank_id |-> bank_id]
    /\ UNCHANGED <<cohortOf, quizQuestions, quizs, now, recent>>
    /\ UNCHANGED <<treeVars, banks, handlers>>

\* DELETE /question/delete
DeleteQuestion(question_id) ==
    /\ requests < MaxRequests
    /\ questions' = delete_question(questions, question_id)
    /\ requests' = requests + 1
    /\ lastOp' = [op |-> "delete",
                  raised |-> delete_question_raised(questions, question_id),
                  result |-> 0, question_id |-> question_id, bank_id |-> None]
    /\ UNCHANGED <<cohortOf, quizQuestions, quizs, now, recent>>
    /\ UNCHANGED <<treeVars, banks, handlers>>

QuestionInit ==
    /\ TreeBlank
    /\ lastOp = NoOp
    /\ questions = <<>>
    /\ cohortOf = <<>>
    /\ quizQuestions = <<>>
    /\ quizs = <<>>
    /\ now = 0
    /\ requests = 0
    /\ recent = <<>>
    /\ banks = <<>>
    /\ handlers = NoHandlers

\* the questions a save request carries: (single_choice, k1) and (None, k1)
QuestionBatches == SeqsUpTo({QuestionData(1), QuestionData(5)}, MaxBatch)
QuestionIdArgs == {AbsentQuestion} \cup {questions[i].question_id : i \in 1..Len(questions)}

QuestionNext ==
    \/ \E questions_list \in QuestionBatches, bank_id \in {None, "b1"} :
           SaveQuestions(questions_list, bank_id)
    \/ \E question_id \in QuestionIdArgs, bank_id \in BankIds :
           UpdateQuestionBank(question_id, bank_id)
    \/ \E question_id \in QuestionIdArgs : DeleteQuestion(question_id)

QuestionSpec == QuestionInit /\ [][QuestionNext]_vars

\* ------------------------------------- composing while the question store changes
\* the questions a save request carries: (single_choice, k1) and (Essay, k2)
SnapshotBatches == SeqsUpTo({QuestionData(1), QuestionData(4)}, MaxBatch)

SnapshotNext ==
    \/ \E questions_list \in SnapshotBatches : SaveQuestions(questions_list, None)
    \/ \E question_id \in QuestionIdArgs, bank_id \in BankIds :
           UpdateQuestionBank(question_id, bank_id)
    \/ \E question_id \in QuestionIdArgs : DeleteQuestion(question_id)
    \/ /\ requests < MaxRequests
       /\ \E knowledge_ids \in QuizKnowledgeIdLists, target_counts \in QuizTargetCounts :
              ComposeQuiz(knowledge_ids, target_counts)

SnapshotSpec == QuestionInit /\ [][SnapshotNext]_vars

\* ------------------------------------------------------------ question banks
\* banks stored in one behaviour
MaxBanks == 3
\* clock readings (datetime.now(), microseconds) in one millisecond
TicksPerMs == 2

BankNames == {"Algebra", "algebra", "Geometry"}

\* generate_id("bank"): "bank_" and the millisecond the clock reading falls in
generate_id(reading) == reading \div TicksPerMs

bank_name_exists_last(stored, bank_name) ==
    stored # <<>> /\ stored[Len(stored)].bank_name = bank_name

\* any(bank.get("bank_name") == bank_name for bank in banks)
bank_name_exists(stored, bank_name) ==
    \E i \in 1..Len(stored) : stored[i].bank_name = bank_name

\* create_question_bank: the bank list it saves
create_question_bank(stored, bank_name, id_reading, time_reading) ==
    Append(stored, [bank_id |-> generate_id(id_reading), bank_name |-> bank_name,
                    created_time |-> time_reading])

\* POST /bank/create: the clock is read twice, for the id and for created_time
CreateQuestionBank(bank_name) ==
    \E id_reading \in {now, now + 1} : \E time_reading \in {id_reading, id_reading + 1} :
        LET exists == bank_name_exists(banks, bank_name)
        IN  /\ requests < MaxRequests
            /\ ~exists => Len(banks) < MaxBanks
            /\ banks' = IF exists THEN banks
                        ELSE create_question_bank(banks, bank_name, id_reading, time_reading)
            /\ now' = IF exists THEN now ELSE time_reading
            /\ requests' = requests + 1
            /\ lastOp' = [op |-> "create_bank", raised |-> IF exists THEN "400" ELSE "",
                          result |-> 0, bank_name |-> bank_name]
            /\ UNCHANGED <<questions, cohortOf, quizQuestions, quizs, recent>>
            /\ UNCHANGED <<treeVars, handlers>>

BankInit ==
    /\ TreeBlank
    /\ lastOp = NoOp
    /\ QuizBlank

BankNext == \E bank_name \in BankNames : CreateQuestionBank(bank_name)

BankSpec == BankInit /\ [][BankNext]_vars
\* ------------------------------------------------- the filtered knowledge tree
\* questions stored when the filtered tree is asked for
MaxFilterStore == 2

\* knowledge_id of a stored question: the id of a node (uuid strings in the
\* code, the ids of the tree here), of no node, or None
FilterKnowledgeIds == BaseIds \cup {uuid4(0), uuid4(1), AbsentId, NoneId}
FilterStores ==
    {[i \in 1..Len(s) |->
         question_obj(i, i, s[i].bank_id,
                      [type |-> "single_choice", knowledge_id |-> s[i].knowledge_id])] :
        s \in SeqsUpTo([knowledge_id : FilterKnowledgeIds, bank_id : {None, "b1"}],
                       MaxFilterStore)}

\* step 1: the knowledge ids of the questions (of the bank, when one is given)
knowledge_ids_with_questions(questions_raw, bank_id) ==
    {questions_raw[i].knowledge_id :
        i \in {j \in 1..Len(questions_raw) :
                  /\ ~(bank_id \notin {None, ""} /\ questions_raw[j].bank_id # bank_id)
                  /\ questions_raw[j].knowledge_id # NoneId}}

\* id_to_node: for an id, the last node of the list that carries it
id_to_node(all_knowledge_items, node_id) ==
    all_knowledge_items[CHOOSE i \in 1..Len(all_knowledge_items) :
                            /\ all_knowledge_items[i].id = node_id
                            /\ \A j \in (i + 1)..Len(all_knowledge_items) :
                                   all_knowledge_items[j].id # node_id]

add_node_only(all_knowledge_items, node_id, nodes_to_keep) ==
    IF node_id \in Ids(all_knowledge_items) THEN nodes_to_keep \cup {node_id}
    ELSE nodes_to_keep

\* add_node_and_parents: nodes_to_keep after the call
RECURSIVE add_node_and_parents(_, _, _)
add_node_and_parents(all_knowledge_items, node_id, nodes_to_keep) ==
    IF node_id \in nodes_to_keep THEN nodes_to_keep
    ELSE IF node_id \notin Ids(all_knowledge_items) THEN nodes_to_keep
    ELSE LET node == id_to_node(all_knowledge_items, node_id)
         IN  IF node.parentId # NoneId
             THEN add_node_and_parents(all_knowledge_items, node.parentId,
                                       nodes_to_keep \cup {node_id})
             ELSE nodes_to_keep \cup {node_id}

\* step 5: the loop over knowledge_ids_with_questions
RECURSIVE nodes_to_keep_after(_, _, _)
nodes_to_keep_after(all_knowledge_items, knowledge_ids, nodes_to_keep) ==
    IF knowledge_ids = {} THEN nodes_to_keep
    ELSE LET knowledge_id == CHOOSE k \in knowledge_ids : TRUE
         IN  nodes_to_keep_after(
                 all_knowledge_items, knowledge_ids \ {knowledge_id},
                 add_node_and_parents(all_knowledge_items, knowledge_id, nodes_to_keep))

get_filtered_knowledge_tree(questions_raw, all_knowledge_items, bank_id) ==
    IF knowledge_ids_with_questions(questions_raw, bank_id) = {} THEN <<>>
    ELSE SelectSeq(all_knowledge_items,
                   LAMBDA item : item.id \in nodes_to_keep_after(
                       all_knowledge_items,
                       knowledge_ids_with_questions(questions_raw, bank_id), {}))

\* GET of the filtered knowledge tree (api/quiz_gen.py)
GetFilteredKnowledgeTree(bank_id) ==
    /\ requests = 0
    /\ requests' = 1
    /\ lastOp' = [op |-> "filter", raised |-> "", result |-> 0, bank_id |-> bank_id,
                  items |-> get_filtered_knowledge_tree(questions, tree, bank_id)]
    /\ UNCHANGED <<tree, nextId, merges, questions, cohortOf, quizQuestions, quizs, now,
                   recent, banks, handlers>>

FilterInit ==
    /\ tree \in InitTrees
    /\ nextId = 0
    /\ merges = 0
    /\ lastOp = NoOp
    /\ questions \in FilterStores
    /\ cohortOf = [i \in 1..Len(questions) |-> i]
    /\ quizQuestions = <<>>
    /\ quizs = <<>>
    /\ now = Len(questions)
    /\ requests = 0
    /\ recent = <<>>
    /\ banks = <<>>
    /\ handlers = NoHandlers

\* one merge, then the filtered tree is asked for
FilterNext ==
    \/ /\ merges = 0
       /\ requests = 0
       /\ \E directory_items \in Outlines, knowledge_item_id \in Ids(tree), file_name \in {"a.pdf"} :
              ExtractAndSave(directory_items, knowledge_item_id, file_name)
    \/ \E bank_id \in {None, "b1", "b2"} : GetFilteredKnowledgeTree(bank_id)

FilterSpec == FilterInit /\ [][FilterNext]_vars
\* ---------------------------------------------------------------------------
\* Two server processes on one data directory.  Every question handler is a
\* load of question.json followed by a save; neither load_json_file nor
\* save_json_file takes a lock, so the loads and saves of two processes
\* interleave freely.  Each process serves one request here.
\* ---------------------------------------------------------------------------

\* processes serving the same data directory
NumWorkers == 2

Workers == 1..NumWorkers

IdleHandler ==
    [pc |-> "idle", kind |-> "", questions_list |-> <<>>, question_id |-> AbsentQuestion,
     bank_id |-> None, loaded |-> <<>>, created_time |-> 0, behind |-> FALSE,
     raised |-> ""]

\* the list a handler works on between its load and its save: the file is read
\* again at the save (not what the code does)
held_collection_reloaded(loaded, stored) == stored

\* the list a handler works on between its load and its save: the Python list
\* load_json_file returned, whatever the file holds by now
held_collection(loaded, stored) == loaded

\* the error a handler raises on the list it holds
handler_raised(h, held) ==
    CASE h.kind = "save" -> ""
      [] h.kind = "update_bank" -> update_question_bank_raised(held, h.question_id)
      [] h.kind = "delete" -> delete_question_raised(held, h.question_id)

\* the list a handler that does not raise passes to save_json_file
handler_writes(h, held, created_time, w) ==
    CASE h.kind = "save" ->
             save_questions(held, h.questions_list, h.bank_id, created_time, w + 1)
      [] h.kind = "update_bank" -> update_question_bank(held, h.question_id, h.bank_id)
      [] h.kind = "delete" -> delete_question(held, h.question_id)

\* first half of a question handler: load_json_file
Load(w, kind, questions_list, question_id, bank_id) ==
    /\ handlers[w].pc = "idle"
    /\ handlers' = [handlers EXCEPT ![w] =
                        [IdleHandler EXCEPT !.pc = "loaded", !.kind = kind,
                                            !.questions_list = questions_list,
                                            !.question_id = question_id,
                                            !.bank_id = bank_id,
                                            !.loaded = questions]]
    /\ UNCHANGED <<questions, cohortOf, quizQuestions, quizs, now, requests, recent, banks>>
    /\ UNCHANGED <<treeVars, lastOp>>

\* second half of a question handler: work on the loaded list, raise or
\* save_json_file
Save(w) ==
    \E t \in {now, now + 1} :
        LET h == handlers[w]
            held == held_collection(h.loaded, questions)
            raised == handler_raised(h, held)
        IN  /\ h.pc = "loaded"
            /\ h.kind # "save" => t = now
            /\ now' = t
            /\ questions' = IF raised = "" THEN handler_writes(h, held, t, w) ELSE questions
            /\ cohortOf' = IF h.kind = "save"
                           THEN [id \in DOMAIN cohortOf \cup
                                        {question_uuid(w + 1, i) :
                                             i \in 1..Len(h.questions_list)} |->
                                    IF id \in DOMAIN cohortOf THEN cohortOf[id] ELSE w + 1]
                           ELSE cohortOf
            /\ handlers' = [v \in Workers |->
                               IF v = w
                               THEN [h EXCEPT !.pc = "done", !.raised = raised,
                                              !.created_time = t]
                               ELSE IF handlers[v].pc = "loaded" /\ raised = ""
                                    THEN [handlers[v] EXCEPT !.behind = TRUE]
                                    ELSE handlers[v]]
            /\ requests' = requests + 1
            /\ lastOp' = [op |-> h.kind, raised |-> raised, result |-> 0, worker |-> w]
            /\ UNCHANGED <<quizQuestions, quizs, recent, banks>>
            /\ UNCHANGED treeVars

\* the stores the two processes start on: what one save request left
RaceStores == {save_questions(<<>>, l, None, 0, 1) : l \in QuestionBatches}

RaceInit ==
    /\ TreeBlank
    /\ lastOp = NoOp
    /\ questions \in RaceStores
    /\ cohortOf = [id \in {questions[i].question_id : i \in 1..Len(questions)} |-> 1]
    /\ quizQuestions = <<>>
    /\ quizs = <<>>
    /\ now = 0
    /\ requests = 0
    /\ recent = <<>>
    /\ banks = <<>>
    /\ handlers = [w \in Workers |-> IdleHandler]

RaceNext ==
    \/ \E w \in Workers, questions_list \in QuestionBatches, bank_id \in {None, "b1"} :
           Load(w, "save", questions_list, AbsentQuestion, bank_id)
    \/ \E w \in Workers, question_id \in QuestionIdArgs :
           Load(w, "delete", <<>>, question_id, None)
    \/ \E w \in Workers, question_id \in QuestionIdArgs :
           Load(w, "update_bank", <<>>, question_id, "b1")
    \/ \E w \in Workers : Save(w)

RaceSpec == RaceInit /\ [][RaceNext]_vars
\* ------------------------------------------------------------ tree claims
\* positions of the knowledge nodes that are direct children of the anchor
KnowledgeChildren(items, anchor) ==
    {i \in 1..Len(items) : items[i].type = "knowledge" /\ items[i].parentId = anchor}
\* positions of the knowledge nodes reachable from the anchor along parentId edges
KnowledgeBelow(items, anchor) ==
    {i \in 1..Len(items) :
        items[i].type = "knowledge" /\ items[i].id \in find_all_descendants(anchor, items)}

\* C1: merging the outline, anchor and file name of the merge that has just saved
\* once more leaves as many knowledge nodes under the anchor (direct children, and
\* all descendants) as the first merge left, for every outline that converts.
MergeIdempotence ==
    [][\A f \in FileNames :
          (/\ lastOp.op = "merge" /\ lastOp.result > 0
           /\ ExtractAndSave(lastOp.items, lastOp.kid, f) /\ f = lastOp.file)
          => /\ lastOp'.again
             /\ Cardinality(KnowledgeChildren(tree', lastOp.kid))
                  = Cardinality(KnowledgeChildren(tree, lastOp.kid))
             /\ Cardinality(KnowledgeBelow(tree', lastOp.kid))
                  = Cardinality(KnowledgeBelow(tree, lastOp.kid))]_vars

\* a nested two-item outline has been merged twice in a row under the same anchor
MergeIdempotenceWitness ==
    /\ lastOp.again /\ lastOp.result = 2
    /\ \E i, j \in 1..2 : lastOp.items[i].parentId = lastOp.items[j].id /\ i # j
    /\ \E i \in 1..2 : lastOp.items[i].parentId = RootLocal
    /\ Cardinality(KnowledgeBelow(tree, lastOp.kid)) = 2

\* C2: every parentId that is present is the id of a node of the stored tree.
NoOrphanedParent ==
    \A i \in 1..Len(tree) : tree[i].parentId # NoneId => tree[i].parentId \in Ids(tree)

\* C3: a merge that saved added one node per outline item, and the ids of the
\* stored nodes are pairwise distinct.
FreshIdPerItem ==
    /\ (lastOp.op = "merge" /\ lastOp.result > 0) =>
           /\ lastOp.result = Len(lastOp.items)
           /\ Len(tree) >= lastOp.result
    /\ \A i, j \in 1..Len(tree) : i # j => tree[i].id # tree[j].id

\* C4: the nodes a merge appended, item by item: parentId is the anchor for a
\* top-level item and otherwise the id this merge generated for the node of the
\* local parent, never the local id; node_id and file_name are the item's local
\* id and the file name.
FreshIdsOfLastMerge == {uuid4(m) : m \in (nextId - lastOp.result)..(nextId - 1)}
MergeIdMapping ==
    (lastOp.op = "merge" /\ lastOp.result > 0) =>
        LET d == lastOp.items
            base == Len(tree) - Len(d)
        IN  \A i \in 1..Len(d) :
                LET node == tree[base + i]
                IN  /\ node.type = "knowledge"
                    /\ node.node_id = d[i].id
                    /\ node.file_name = lastOp.file
                    /\ node.id \in FreshIdsOfLastMerge
                    /\ IF d[i].parentId = RootLocal
                       THEN node.parentId = lastOp.kid
                       ELSE /\ node.parentId # d[i].parentId
                            /\ node.parentId \in FreshIdsOfLastMerge
                            /\ \E j \in 1..Len(d) : /\ d[j].id = d[i].parentId
                                                    /\ tree[base + j].id = node.parentId
                            /\ \A j \in 1..Len(d) : d[j].id = d[i].parentId
                                                    => tree[base + j].id = node.parentId

\* a merge saved an outline whose first item is the child of its second item
MergeIdMappingWitness ==
    /\ lastOp.op = "merge" /\ lastOp.result = 2
    /\ lastOp.items[1].parentId = lastOp.items[2].id
    /\ lastOp.items[1].id # lastOp.items[2].id
    /\ lastOp.items[2].parentId = RootLocal
    /\ tree[Len(tree) - 1].parentId = tree[Len(tree)].id

\* ------------------------------------------------------------ composer claims
\* the stored questions of a type whose knowledge id is selected
Candidates(question_type, knowledge_ids) ==
    SelectSeq(load_questions(questions),
              LAMBDA q : /\ lower(q.type) = lower(question_type)
                         /\ q.knowledge_id \in Range(knowledge_ids))

\* the quiz items the last compose request emitted for its k-th target
EmittedFor(k) ==
    IF k <= Len(lastOp.passes) THEN lastOp.passes[k].items ELSE <<>>

CountWhere(items, Test(_)) == Len(SelectSeq(items, Test))

\* C5: for every type with a positive target count and at least that many stored
\* candidates among the selected knowledge ids, a compose request emits exactly
\* the target count of quiz items for the type, each with quiz_id "", whatever
\* the draws.
ComposerTargetSatisfaction ==
    lastOp.op = "compose" =>
        \A k \in 1..Len(lastOp.target_counts) :
            LET tc == lastOp.target_counts[k]
            IN  (tc.count > 0 /\ Len(Candidates(tc.type, lastOp.knowledge_ids)) >= tc.count)
                => /\ Len(EmittedFor(k)) = tc.count
                   /\ \A i \in 1..Len(EmittedFor(k)) : EmittedFor(k)[i].quiz_id = ""

\* C5, for the requests that run to the end: the target is met exactly and what
\* was emitted is what the quiz-question store received.
ComposerTargetSatisfactionCompleted ==
    (lastOp.op = "compose" /\ lastOp.raised = "") =>
        /\ ComposerTargetSatisfaction
        /\ quizQuestions = Flatten(lastOp.passes)

\* C6: for every type with a positive target count and fewer candidates than
\* that among the selected knowledge ids, a compose request emits every one of
\* the candidates exactly once for the type.
ComposerShortfall ==
    lastOp.op = "compose" =>
        \A k \in 1..Len(lastOp.target_counts) :
            LET tc == lastOp.target_counts[k]
                cands == Candidates(tc.type, lastOp.knowledge_ids)
            IN  (tc.count > 0 /\ Len(cands) < tc.count)
                => /\ Len(EmittedFor(k)) = Len(cands)
                   /\ \A c \in 1..Len(cands) :
                          CountWhere(EmittedFor(k),
                                     LAMBDA item : item.question_id = cands[c].question_id) = 1

\* C6, for the requests that run to the end.
ComposerShortfallCompleted ==
    (lastOp.op = "compose" /\ lastOp.raised = "") => ComposerShortfall

\* C7: in a pass with floor = target_count // len(knowledge_ids), every selected
\* knowledge id with at least floor candidates of the type has at least floor
\* questions in the pass's selection, and no knowledge id has more questions in
\* it than it has candidates.
ComposerFairShare ==
    (lastOp.op = "compose" /\ lastOp.raised = "") =>
        \A k \in 1..Len(lastOp.passes) :
            LET pass == lastOp.passes[k]
                cands == Candidates(pass.type, lastOp.knowledge_ids)
                floor == pass.count \div Len(lastOp.knowledge_ids)
            IN  pass.count > 0 =>
                    \A kid \in Range(lastOp.knowledge_ids) :
                        LET avail == CountWhere(cands, LAMBDA q : q.knowledge_id = kid)
                            drawn == CountWhere(pass.items,
                                         LAMBDA item : item.question_content.knowledge_id = kid)
                        IN  /\ avail >= floor => drawn >= floor
                            /\ drawn <= avail

\* a pass with a positive floor in which one knowledge id cannot reach the floor
\* and another, filled up in the second step, contributes more than the floor
ComposerFairShareWitness ==
    /\ lastOp.op = "compose"
    /\ lastOp.raised = ""
    /\ \E k \in 1..Len(lastOp.passes) :
           LET pass == lastOp.passes[k]
               cands == Candidates(pass.type, lastOp.knowledge_ids)
               floor == pass.count \div Len(lastOp.knowledge_ids)
           IN  /\ floor >= 1
               /\ \E kid, other \in Range(lastOp.knowledge_ids) :
                      /\ CountWhere(cands, LAMBDA q : q.knowledge_id = other) < floor
                      /\ CountWhere(pass.items,
                             LAMBDA item : item.question_content.knowledge_id = kid) > floor

\* ---------------------------------------------------------------- quiz claims
\* C8: after two compose requests and then one quiz creation, with nothing in
\* between, every quiz item the two requests emitted carries the new quiz's id
\* and name, and no stored quiz item has quiz_id "".
UnassignedBatchClaim ==
    (/\ Len(recent) = 3
     /\ recent[1].op = "compose"
     /\ recent[2].op = "compose"
     /\ recent[3].op = "create_quiz")
    => LET n == recent[1].n + recent[2].n
           total == Len(quizQuestions)
           quiz == quizs[Len(quizs)]
       IN  /\ quiz.quiz_id = lastOp.quiz_id
           /\ quiz.quiz_name = lastOp.quiz_name
           /\ n <= total
           /\ \A i \in (total - n + 1)..total :
                  /\ quizQuestions[i].quiz_id = quiz.quiz_id
                  /\ quizQuestions[i].quiz_name = quiz.quiz_name
           /\ \A i \in 1..total : quizQuestions[i].quiz_id # ""

UnassignedBatchClaimWitness ==
    /\ Len(recent) = 3
    /\ recent[1].op = "compose" /\ recent[1].n >= 1
    /\ recent[2].op = "compose" /\ recent[2].n >= 1
    /\ recent[3].op = "create_quiz"
    /\ Len(quizQuestions) >= 2

\* C9: a stored quiz item with a non-empty quiz_id keeps its quiz_id and
\* quiz_name through every compose, quiz creation and quiz-info update, and a
\* step in which a quiz item leaves quiz_id "" is an assignment (a quiz creation
\* or a quiz-info update).
QuizIdentityAssignedOnce ==
    [][/\ \A i \in 1..Len(quizQuestions) :
              quizQuestions[i].quiz_id # "" =>
                  /\ i <= Len(quizQuestions')
                  /\ quizQuestions'[i].quiz_id = quizQuestions[i].quiz_id
                  /\ quizQuestions'[i].quiz_name = quizQuestions[i].quiz_name
                  /\ quizQuestions'[i].question_id = quizQuestions[i].question_id
       /\ (\E i \in 1..Len(quizQuestions) :
               /\ quizQuestions[i].quiz_id = ""
               /\ i <= Len(quizQuestions')
               /\ quizQuestions'[i].quiz_id # "")
          => lastOp'.op \in {"create_quiz", "update_quiz_info"}
      ]_vars

\* a quiz-info update that assigned some items and met items of another quiz
QuizIdentityAssignedOnceWitness ==
    /\ lastOp.op = "update_quiz_info"
    /\ lastOp.quiz_id # ""
    /\ \E i, j \in 1..Len(quizQuestions) :
           /\ quizQuestions[i].quiz_id \notin {"", lastOp.quiz_id}
           /\ quizQuestions[j].quiz_id = lastOp.quiz_id
           /\ i < j

\* ------------------------------------------------------------ question claims
CohortMembers(questions_raw, call) ==
    {i \in 1..Len(questions_raw) : cohortOf[questions_raw[i].question_id] = call}

\* C10: when update_question_bank is given the id of a question of a cohort
\* that one save request stored with no bank id (and whose questions still have
\* none), every stored question of the cohort gets the given bank id and every
\* question stored by another save request stays as it was.
BankAssignmentBatchPropagation ==
    [][(/\ lastOp'.op = "update_bank"
        /\ lastOp'.raised = ""
        /\ requests' = requests + 1
        /\ \A i \in CohortMembers(questions, cohortOf[lastOp'.question_id]) :
               questions[i].bank_id = None)
       => /\ Len(questions') = Len(questions)
          /\ \A i \in 1..Len(questions) :
                 IF cohortOf[questions[i].question_id] = cohortOf[lastOp'.question_id]
                 THEN questions'[i].bank_id = lastOp'.bank_id
                 ELSE questions'[i] = questions[i]
      ]_vars

\* C10, when no two save requests read the same created_time.
BankAssignmentDistinctTimes ==
    [][(/\ lastOp'.op = "update_bank"
        /\ lastOp'.raised = ""
        /\ requests' = requests + 1
        /\ \A i, j \in 1..Len(questions) :
               questions[i].created_time = questions[j].created_time
               => cohortOf[questions[i].question_id] = cohortOf[questions[j].question_id]
        /\ \A i \in CohortMembers(questions, cohortOf[lastOp'.question_id]) :
               questions[i].bank_id = None)
       => /\ Len(questions') = Len(questions)
          /\ \A i \in 1..Len(questions) :
                 IF cohortOf[questions[i].question_id] = cohortOf[lastOp'.question_id]
                 THEN questions'[i].bank_id = lastOp'.bank_id
                 ELSE questions'[i] = questions[i]
      ]_vars

\* the positions in a store of the record carrying a question id
PositionsOf(questions_raw, question_id) ==
    {i \in 1..Len(questions_raw) : questions_raw[i].question_id = question_id}

\* C11: through every save, bank assignment and delete, a stored question that
\* stays stored keeps its question_id, created_time, knowledge_id and content,
\* and keeps its bank_id once that is a concrete value.
QuestionsImmutableExceptBank ==
    [][\A i \in 1..Len(questions) :
           \A j \in PositionsOf(questions', questions[i].question_id) :
               /\ questions'[j].created_time = questions[i].created_time
               /\ questions'[j].knowledge_id = questions[i].knowledge_id
               /\ questions'[j].question_content = questions[i].question_content
               /\ questions[i].bank_id # None => questions'[j].bank_id = questions[i].bank_id
      ]_vars

\* a bank assignment that found its question already in another bank
QuestionsImmutableExceptBankWitness ==
    /\ lastOp.op = "update_bank"
    /\ lastOp.raised = ""
    /\ \E i \in PositionsOf(questions, lastOp.question_id) :
           questions[i].bank_id \notin {None, lastOp.bank_id}

\* ---------------------------------------------------------------- bank claims
\* C12: stored bank names are pairwise distinct, and a create request whose
\* name equals a stored bank's name (case-sensitively) fails with the
\* name-exists error and leaves the bank store as it was.
BankNameUniqueness ==
    [][/\ \A i, j \in 1..Len(banks') : i # j => banks'[i].bank_name # banks'[j].bank_name
       /\ \A bank_name \in BankNames :
              CreateQuestionBank(bank_name) =>
                  IF \E i \in 1..Len(banks) : banks[i].bank_name = bank_name
                  THEN lastOp'.raised = "400" /\ banks' = banks
                  ELSE /\ lastOp'.raised = ""
                       /\ Len(banks') = Len(banks) + 1
                       /\ banks'[Len(banks')].bank_name = bank_name
                       /\ \A i \in 1..Len(banks) : banks'[i] = banks[i]
      ]_vars

\* a create request refused for its name, with a bank stored whose name differs
\* from it only in case
BankNameUniquenessWitness ==
    /\ lastOp.op = "create_bank"
    /\ lastOp.raised = "400"
    /\ \E i, j \in 1..Len(banks) :
           /\ banks[i].bank_name = "Algebra"
           /\ banks[j].bank_name = "algebra"

\* --------------------------------------------------- delete and merge claims
\* the ids reachable from a set of ids along parentId edges downward
RECURSIVE ReachableBelow(_, _)
ReachableBelow(found, items) ==
    LET more == found \cup UNION {Children(p, items) : p \in found}
    IN  IF more = found THEN found ELSE ReachableBelow(more, items)

DescendantIds(items, root) ==
    IF Children(root, items) = {} THEN {} ELSE ReachableBelow(Children(root, items), items)

\* C13: delete_knowledge_points(r) removes exactly the nodes below r, keeps r
\* and every other node as it was and in its place, and returns the number of
\* nodes it removed.
DescendantClosureExactness ==
    [][\A r \in Ids(tree) \cup {AbsentId} :
           DeleteKnowledgePoints(r) =>
               /\ lastOp'.raised = ""
               /\ tree' = SelectSeq(tree, LAMBDA item : item.id \notin DescendantIds(tree, r))
               /\ \A i \in 1..Len(tree) : tree[i].id = r => tree[i] \in Range(tree')
               /\ lastOp'.result = Len(tree) - Len(tree')
      ]_vars

\* C13, on the trees whose node ids are pairwise distinct and in which no node
\* at or below r lies below itself.
DescendantClosureExactnessOnTrees ==
    [][\A r \in Ids(tree) \cup {AbsentId} :
           (/\ DeleteKnowledgePoints(r)
            /\ \A i, j \in 1..Len(tree) : i # j => tree[i].id # tree[j].id
            /\ \A n \in {r} \cup DescendantIds(tree, r) : n \notin DescendantIds(tree, n))
           => /\ lastOp'.raised = ""
              /\ tree' = SelectSeq(tree, LAMBDA item : item.id \notin DescendantIds(tree, r))
              /\ \A i \in 1..Len(tree) : tree[i].id = r => tree[i] \in Range(tree')
              /\ lastOp'.result = Len(tree) - Len(tree')
      ]_vars

\* C14: the descendant computation of delete_knowledge_points ends normally on
\* every stored tree, trees with a parentId cycle below the given id included.
DescendantsTerminate ==
    lastOp.op = "delete" => lastOp.raised # "RecursionError"

\* C15: a merge under an anchor id that no stored node carries returns 0, raises
\* nothing and leaves the stored tree as it was.
AbsentAnchorNoOp ==
    [][\A directory_items \in Outlines, file_name \in FileNames :
       \A knowledge_item_id \in AnchorArgs \ Ids(tree) :
           ExtractAndSave(directory_items, knowledge_item_id, file_name) =>
               /\ tree' = tree
               /\ nextId' = nextId
               /\ lastOp'.result = 0
               /\ lastOp'.raised = ""
      ]_vars

\* a merge left by the "no parent document" return, with a tree that holds
\* knowledge nodes of the file names in use
AbsentAnchorNoOpWitness ==
    /\ lastOp.op = "merge"
    /\ lastOp.path = "no parent"
    /\ \E i \in 1..Len(tree) : tree[i].type = "knowledge"

\* the outline has a parentId that is neither -1 nor the id of one of its items
DanglingParent(directory_items) ==
    \E i \in 1..Len(directory_items) :
        /\ directory_items[i].parentId # RootLocal
        /\ \A j \in 1..Len(directory_items) :
               directory_items[j].id # directory_items[i].parentId

\* C16: a merge of an outline with a dangling parentId reports zero nodes and
\* lets no exception escape to the request handler.
MalformedOutlineRecovery ==
    [][\A directory_items \in Outlines, file_name \in FileNames :
       \A knowledge_item_id \in AnchorArgs :
           (ExtractAndSave(directory_items, knowledge_item_id, file_name)
            /\ DanglingParent(directory_items))
           => /\ lastOp'.result = 0
              /\ lastOp'.raised = ""
      ]_vars

\* C16, as far as the code goes: the lookup failure escapes, and the stored tree
\* is as it was.
MalformedOutlineLeavesTree ==
    [][\A directory_items \in Outlines, file_name \in FileNames :
       \A knowledge_item_id \in AnchorArgs :
           (ExtractAndSave(directory_items, knowledge_item_id, file_name)
            /\ DanglingParent(directory_items))
           => /\ tree' = tree
              /\ lastOp'.result = 0
              /\ lastOp'.raised = IF knowledge_item_id \in Ids(tree) THEN "KeyError" ELSE ""
      ]_vars

\* ------------------------------------------------- question error claims
\* C17: update_question_bank with a question id that no stored question carries
\* fails with the not-found error and leaves the question store as it was.
UpdateBankNotFound ==
    [][(/\ lastOp'.op = "update_bank"
        /\ requests' = requests + 1
        /\ PositionsOf(questions, lastOp'.question_id) = {})
       => /\ lastOp'.raised = "404"
          /\ questions' = questions
      ]_vars

\* a refused bank assignment, with questions stored that have no bank yet
UpdateBankNotFoundWitness ==
    /\ lastOp.op = "update_bank"
    /\ lastOp.raised = "404"
    /\ PositionsOf(questions, lastOp.question_id) = {}
    /\ \E i \in 1..Len(questions) : questions[i].bank_id = None

\* C18: delete_question with an id that no stored question carries fails with
\* the not-found error and leaves the store as it was; otherwise it removes one
\* record, the one with that id, and keeps the others and their order.
DeleteQuestionExact ==
    [][(lastOp'.op = "delete" /\ requests' = requests + 1)
       => IF PositionsOf(questions, lastOp'.question_id) = {}
          THEN /\ lastOp'.raised = "404"
               /\ questions' = questions
          ELSE /\ lastOp'.raised = ""
               /\ Len(questions') = Len(questions) - 1
               /\ \E k \in 1..Len(questions) :
                      /\ questions[k].question_id = lastOp'.question_id
                      /\ \A i \in 1..(k - 1) : questions'[i] = questions[i]
                      /\ \A i \in k..Len(questions') : questions'[i] = questions[i + 1]
      ]_vars

\* a delete that removed a record standing between two others
DeleteQuestionExactWitness ==
    /\ lastOp.op = "delete"
    /\ lastOp.raised = ""
    /\ \E i, j \in 1..Len(questions) :
           /\ i < j
           /\ questions[i].question_id < lastOp.question_id
           /\ lastOp.question_id < questions[j].question_id

\* --------------------------------------------------------- compose frame claims
\* C19: after a compose request the quiz-question store is the store before it
\* followed by the quiz items the request drew; every item stored before is
\* still there, in its place and as it was.
ComposeCumulativeAppend ==
    [][(lastOp'.op = "compose" /\ requests' = requests + 1)
       => /\ quizQuestions' = quizQuestions \o Flatten(lastOp'.passes)
          /\ Len(quizQuestions') = Len(quizQuestions) + lastOp'.result
          /\ \A i \in 1..Len(quizQuestions) : quizQuestions'[i] = quizQuestions[i]
      ]_vars

\* a compose that drew items, with an assigned and an unassigned item stored
\* before it
ComposeCumulativeAppendWitness ==
    /\ lastOp.op = "compose"
    /\ lastOp.result >= 1
    /\ \E i, j \in 1..(Len(quizQuestions) - lastOp.result) :
           /\ quizQuestions[i].quiz_id # ""
           /\ quizQuestions[j].quiz_id = ""

\* C20: a quiz item drawn by a compose request carries the question_content the
\* stored question of its question_id has at that time, and no later save,
\* bank assignment, delete or compose changes the question_content or the
\* question_id of a stored quiz item.
SnapshotDecoupling ==
    [][/\ \A i \in 1..Len(quizQuestions) :
              /\ i <= Len(quizQuestions')
              /\ quizQuestions'[i].question_id = quizQuestions[i].question_id
              /\ quizQuestions'[i].question_content = quizQuestions[i].question_content
       /\ \A i \in (Len(quizQuestions) + 1)..Len(quizQuestions') :
              /\ lastOp'.op = "compose"
              /\ \E k \in PositionsOf(questions, quizQuestions'[i].question_id) :
                     quizQuestions'[i].question_content = questions[k].question_content
      ]_vars

\* the source question of a stored quiz item has been deleted, and questions of
\* another content are stored
SnapshotDecouplingWitness ==
    /\ lastOp.op = "delete"
    /\ lastOp.raised = ""
    /\ \E i \in 1..Len(quizQuestions) :
           /\ quizQuestions[i].question_id = lastOp.question_id
           /\ PositionsOf(questions, lastOp.question_id) = {}
           /\ \E k \in 1..Len(questions) :
                  questions[k].question_content # quizQuestions[i].question_content

\* --------------------------------------------------------- filtered tree claims
\* the ids reachable from a set of ids along parentId edges upward, through
\* every node that carries one of the ids
RECURSIVE AncestorClosure(_, _)
AncestorClosure(found, items) ==
    LET more == found \cup
                {items[i].parentId :
                    i \in {j \in 1..Len(items) :
                              /\ items[j].id \in found
                              /\ items[j].parentId \in Ids(items)}}
    IN  IF more = found THEN found ELSE AncestorClosure(more, items)

ReferencedNodeIds(bank_id) ==
    {questions[i].knowledge_id :
        i \in {j \in 1..Len(questions) : bank_id = None \/ questions[j].bank_id = bank_id}}
    \cap Ids(tree)

\* C21: the filtered tree is the stored tree cut down to the nodes that a stored
\* question (of the bank, when one is given) references as knowledge_id or that
\* are a transitive parent of such a node, each once and in the tree's order;
\* it is empty when no question references a node, and it is computed also on
\* trees with a parentId cycle.
FilteredTreeExact ==
    lastOp.op = "filter" =>
        /\ lastOp.raised = ""
        /\ lastOp.items =
               SelectSeq(tree, LAMBDA item :
                   item.id \in AncestorClosure(ReferencedNodeIds(lastOp.bank_id), tree))

\* C21, on the trees whose node ids are pairwise distinct.
FilteredTreeExactOnDistinctIds ==
    (/\ lastOp.op = "filter"
     /\ \A i, j \in 1..Len(tree) : i # j => tree[i].id # tree[j].id)
    => /\ lastOp.raised = ""
       /\ lastOp.items =
              SelectSeq(tree, LAMBDA item :
                  item.id \in AncestorClosure(ReferencedNodeIds(lastOp.bank_id), tree))

\* the filtered tree of a tree with a parentId cycle, holding a referenced node
\* and a parent that no question references, and leaving a node out
FilteredTreeOnCycleReached ==
    /\ lastOp.op = "filter"
    /\ \A i, j \in 1..Len(tree) : i # j => tree[i].id # tree[j].id
    /\ \E i \in 1..Len(tree) : tree[i].id \in DescendantIds(tree, tree[i].id)
    /\ \E i \in 1..Len(lastOp.items) :
           lastOp.items[i].id \notin ReferencedNodeIds(lastOp.bank_id)
    /\ Len(lastOp.items) < Len(tree)

\* ------------------------------------------------------------ save claims
\* C22: a save request appends one record per question of the request after the
\* stored records, which stay as they were; the new records share one
\* created_time and the request's bank_id, carry the request's questions in
\* order and ids that are pairwise distinct and carried by no stored record;
\* the ids are returned in order, the first of them (None for an empty request)
\* as question_id.
SaveBatchStamps ==
    [][\A questions_list \in QuestionBatches, bank_id \in {None, "b1"} :
           SaveQuestions(questions_list, bank_id) =>
               LET old == Len(questions)
                   n == Len(questions_list)
               IN  /\ Len(questions') = old + n
                   /\ \A i \in 1..old : questions'[i] = questions[i]
                   /\ \A i \in 1..n :
                          /\ questions'[old + i].created_time = lastOp'.returned.created_time
                          /\ questions'[old + i].bank_id = bank_id
                          /\ questions'[old + i].knowledge_id = questions_list[i].knowledge_id
                          /\ questions'[old + i].question_content = questions_list[i]
                          /\ questions'[old + i].question_id = lastOp'.returned.question_ids[i]
                          /\ PositionsOf(questions', questions'[old + i].question_id) = {old + i}
                   /\ Len(lastOp'.returned.question_ids) = n
                   /\ lastOp'.returned.question_id =
                          IF n = 0 THEN NoneId ELSE questions'[old + 1].question_id
      ]_vars

\* a save of two questions after a stored record of an earlier save was deleted
SaveBatchStampsWitness ==
    /\ lastOp.op = "save"
    /\ lastOp.result = 2
    /\ Len(questions) >= 3
    /\ \E id \in DOMAIN cohortOf : PositionsOf(questions, id) = {}


\* ------------------------------------------------------------- race claims

\* C23: when a handler saves after another handler saved between its load and
\* its save, it raises exactly what it raises on the list it loaded, and if it
\* does not raise the stored list is what its request makes of the list it
\* loaded: nothing the earlier saver wrote is kept.
LostUpdate ==
    \A w \in Workers :
        LET h == handlers[w]
        IN  (h.pc = "done" /\ h.behind) =>
                /\ h.raised = handler_raised(h, h.loaded)
                /\ h.raised = "" =>
                       questions = handler_writes(h, h.loaded, h.created_time, w)

\* both processes loaded before either saved, both saved a non-empty batch, and
\* the batch of the earlier saver is not in the store
LostUpdateWitness ==
    \E w \in Workers, v \in Workers :
        /\ w # v
        /\ handlers[w].pc = "done" /\ handlers[w].behind /\ handlers[w].kind = "save"
        /\ handlers[v].pc = "done" /\ handlers[v].kind = "save"
        /\ handlers[v].raised = "" /\ Len(handlers[v].questions_list) > 0
        /\ Len(handlers[w].questions_list) > 0
        /\ \A i \in 1..Len(questions) :
               questions[i].question_id # question_uuid(v + 1, 1)
        /\ \E i \in 1..Len(questions) :
               questions[i].question_id = question_uuid(w + 1, 1)


\* ------------------------------------------------------- quiz name claims

\* C24: every stored quiz-question has an empty quiz_id exactly when it has an
\* empty quiz_name.
QuizNameMirrorsQuizId ==
    \A i \in 1..Len(quizQuestions) :
        (quizQuestions[i].quiz_id = "") <=> (quizQuestions[i].quiz_name = "")

\* C24, for the requests that carry a quiz id and a quiz name that are both
\* non-empty: the step keeps quiz_id and quiz_name empty together.
QuizNameMirrorsOnNamedRequests ==
    [][(/\ lastOp'.op \in {"create_quiz", "update_quiz_info"}
        /\ lastOp'.quiz_id # "" /\ lastOp'.quiz_name # ""
        /\ QuizNameMirrorsQuizId)
       => QuizNameMirrorsQuizId']_vars


\* ------------------------------------------------------ merge frame claims

\* the stored nodes a merge of document file_name under anchor knowledge_item_id
\* may remove: knowledge nodes directly below the anchor and tagged with the
\* document
Purgeable(item, knowledge_item_id, file_name) ==
    /\ item.type = "knowledge"
    /\ item.parentId = knowledge_item_id
    /\ item.file_name = file_name

\* a merge that saved keeps, in their order and unchanged, exactly the stored
\* nodes that are not knowledge nodes directly below the anchor tagged with the
\* document, appends one node per outline item and returns their number
MergeFrameOfOthers ==
    [][(lastOp'.op = "merge" /\ lastOp'.path = "merged") =>
           LET kept == SelectSeq(tree, LAMBDA item :
                                     ~Purgeable(item, lastOp'.kid, lastOp'.file))
           IN  /\ Len(tree') = Len(kept) + Len(lastOp'.items)
               /\ SubSeq(tree', 1, Len(kept)) = kept
               /\ lastOp'.result = Len(lastOp'.items)]_vars

\* C25: a merge that saved removes only knowledge nodes directly below the
\* anchor tagged with the document; every other stored node is kept unchanged,
\* the anchor among them; the returned count is the number of outline items.
MergeFrame ==
    [][(lastOp'.op = "merge" /\ lastOp'.path = "merged") =>
           LET kept == SelectSeq(tree, LAMBDA item :
                                     ~Purgeable(item, lastOp'.kid, lastOp'.file))
           IN  /\ Len(tree') = Len(kept) + Len(lastOp'.items)
               /\ SubSeq(tree', 1, Len(kept)) = kept
               /\ \A i \in 1..Len(tree) :
                      tree[i].id = lastOp'.kid =>
                          \E j \in 1..Len(kept) : tree'[j] = tree[i]
               /\ lastOp'.result = Len(lastOp'.items)]_vars


\* C26: a merge that raises while wiring the new nodes (an outline item names a
\* parentId no item carries) leaves the stored tree as it was.
FailedMergePersistsNothing ==
    [][(lastOp'.op = "merge" /\ lastOp'.path = "raise") => tree' = tree]_vars

\* a merge raised, and the outline stored earlier for its anchor and document
\* is still stored
FailedMergePersistsNothingWitness ==
    /\ lastOp.op = "merge" /\ lastOp.path = "raise" /\ lastOp.raised = "KeyError"
    /\ \E i \in 1..Len(tree) : Purgeable(tree[i], lastOp.kid, lastOp.file)


\* -------------------------------------------------- compose origin claims

\* every item the k-th pass of the last compose request emitted is a stored
\* question of the selected knowledge ids whose type, in lower case, is the
\* pass's type in lower case, the pass's target is positive, and the pass
\* emitted no question_id twice
PassDrawsSound(k) ==
    LET pass == lastOp.passes[k]
        cands == Candidates(pass.type, lastOp.knowledge_ids)
    IN  /\ pass.items # <<>> => pass.count > 0
        /\ \A i \in 1..Len(pass.items) :
               \E c \in 1..Len(cands) : cands[c].question_id = pass.items[i].question_id
        /\ \A i, j \in 1..Len(pass.items) :
               i # j => pass.items[i].question_id # pass.items[j].question_id

\* C27: every quiz-question a compose request emits comes from a stored question
\* of the selected knowledge ids and of a requested type with a positive target,
\* no pass draws a question twice, and no question_id appears twice in the batch
\* of the request.
ComposeDrawsDistinct ==
    lastOp.op = "compose" =>
        /\ \A k \in 1..Len(lastOp.passes) : PassDrawsSound(k)
        /\ LET batch == Flatten(lastOp.passes)
           IN  \A i, j \in 1..Len(batch) :
                   i # j => batch[i].question_id # batch[j].question_id

\* C27, pass by pass, and over the batch for the requests whose target_counts
\* keys stay distinct in lower case.
ComposeDrawsDistinctPerPass ==
    lastOp.op = "compose" =>
        /\ \A k \in 1..Len(lastOp.passes) : PassDrawsSound(k)
        /\ (\A k, l \in 1..Len(lastOp.target_counts) :
                k # l => lower(lastOp.target_counts[k].type)
                             # lower(lastOp.target_counts[l].type))
           => LET batch == Flatten(lastOp.passes)
              IN  \A i, j \in 1..Len(batch) :
                      i # j => batch[i].question_id # batch[j].question_id

\* a compose request with two keys apart in lower case emitted two passes of
\* one item or more each
ComposeDrawsDistinctPerPassReached ==
    /\ lastOp.op = "compose"
    /\ Len(lastOp.passes) = 2
    /\ lastOp.passes[1].items # <<>> /\ lastOp.passes[2].items # <<>>
    /\ Len(lastOp.passes[1].items) + Len(lastOp.passes[2].items) >= 3


\* ---------------------------------------------------------- cohort claims

\* C28: the stored questions that one save request produced carry the same
\* bank_id, None for all of them or one bank for all of them.
CohortUniformity ==
    \A i, j \in 1..Len(questions) :
        cohortOf[questions[i].question_id] = cohortOf[questions[j].question_id]
        => questions[i].bank_id = questions[j].bank_id

\* an update-bank request has just moved a cohort of two stored questions into
\* its bank, next to a question of another cohort with the same created_time
\* that sits in another bank
CohortUniformityWitness ==
    /\ lastOp.op = "update_bank" /\ lastOp.raised = ""
    /\ \E i, j, k \in 1..Len(questions) :
           /\ i # j
           /\ cohortOf[questions[i].question_id] = cohortOf[questions[j].question_id]
           /\ questions[i].question_id = lastOp.question_id
           /\ questions[i].bank_id = lastOp.bank_id
           /\ cohortOf[questions[k].question_id] # cohortOf[questions[i].question_id]
           /\ questions[k].created_time = questions[i].created_time
           /\ questions[k].bank_id # questions[i].bank_id


\* ---------------------------------------------------- compose input claims

\* C29: a compose request on an empty question store, or with an empty
\* knowledge id list, fails with the 400 error before any pass: no pass ran, the
\* quiz-question store is as it was, and every request that got to its passes
\* has a knowledge id to divide by.
ComposeRejectsEmptyInput ==
    [][lastOp'.op = "compose" =>
           /\ (load_questions(questions) = <<>> \/ lastOp'.knowledge_ids = <<>>) =>
                  /\ lastOp'.raised = IF load_questions(questions) = <<>>
                                      THEN "400 no questions"
                                      ELSE "400 no knowledge ids"
                  /\ lastOp'.passes = <<>>
                  /\ quizQuestions' = quizQuestions
           /\ lastOp'.raised \notin {"400 no questions", "400 no knowledge ids"} =>
                  /\ Len(lastOp'.knowledge_ids) > 0
                  /\ load_questions(questions) # <<>>
      ]_vars

\* a compose request with no knowledge id was refused on a store that holds
\* questions, with quiz-questions of an earlier request stored
ComposeRejectsEmptyInputWitness ==
    /\ lastOp.op = "compose"
    /\ lastOp.raised = "400 no knowledge ids"
    /\ lastOp.knowledge_ids = <<>>
    /\ questions # <<>>
    /\ quizQuestions # <<>>
    /\ \E k \in 1..Len(lastOp.target_counts) : lastOp.target_counts[k].count > 0


\* -------------------------------------------------------- bank id claims

\* C30: stored banks have pairwise distinct bank ids.
BankIdUniqueness ==
    \A i, j \in 1..Len(banks) : i # j => banks[i].bank_id # banks[j].bank_id

\* bank ids follow the clock: in store order they never decrease, and two
\* banks share an id only when their ids were drawn in the same millisecond
BankIdsFollowClock ==
    \A i, j \in 1..Len(banks) :
        i < j => /\ banks[i].bank_id <= banks[j].bank_id
                 /\ banks[i].bank_id * TicksPerMs <= banks[j].created_time

\* three banks stored, created in at least two different milliseconds
BankIdsFollowClockReached ==
    /\ Len(banks) = MaxBanks
    /\ banks[1].bank_id # banks[MaxBanks].bank_id

====
